---- MODULE Spec2Model ----
(***************************************************************************)
(* Model of commands/exportSales.go: the export-sales command.             *)
(*                                                                         *)
(* getAllSales is a straight-line program; the model follows it with a     *)
(* program counter, one action per statement group that can end the run    *)
(* (a date check, a fetch, the file creation) and one action per row that  *)
(* writeReport hands to its CSV writer.                                    *)
(*                                                                         *)
(* Modelling conventions                                                   *)
(*   - a Go pointer field is a sequence of length 0 (nil) or 1 (<<v>>);    *)
(*     dereferencing a nil pointer panics;                                 *)
(*   - a float64 is modelled by an integer (the inputs are integer-valued) *)
(*     and strconv.FormatFloat(x, 'f', -1, 64) by its decimal digits;      *)
(*   - strings are TLA+ strings; a CSV row is a sequence of strings;       *)
(*   - the vend API client and vend.ParseVendDT are external: their        *)
(*     results are inputs chosen in Init;                                  *)
(*   - the fields that may be nil in the inputs are those the code tests   *)
(*     for nil (DeletedAt, Status, InvoiceNumber, Note, UserID, the        *)
(*     customer's names, code and company) and the numeric fields of       *)
(*     sales, line items and payments; IDs, names and the two slices are   *)
(*     always present;                                                     *)
(*   - csv.Writer buffers 4096 bytes: the rows of the model stay below     *)
(*     that, so rows reach the file only at writer.Flush().                *)
(***************************************************************************)
EXTENDS Integers, Sequences, FiniteSets, TLC

VARIABLES
    env,        \* the inputs of the run: flags and what the API client returns
    pc,         \* position in getAllSales / writeReport
    registers,  \* getAllSales locals, set by the fetches
    users,
    customers,
    products,
    sales,
    created,    \* TRUE once os.Create has made the report file
    file,       \* rows on disk in the report file
    wbuf,       \* rows held by writeReport's csv.Writer, not yet flushed
    src,        \* history: for each data row written, the sale/item it came from
    record,     \* writeReport: the []string shared by the three row kinds
    i,          \* writeReport: index of the current sale
    j,          \* writeReport: index of the current line item / payment
    stdout,     \* messages printed with fmt.Print*
    stderr,     \* messages logged with log.Fatalf / the runtime's panic report
    exitCode,   \* -1 while running, then the process exit status
    calls       \* history: the steps of getAllSales performed so far

vars == <<env, pc, registers, users, customers, products, sales, created, file,
          wbuf, src, record, i, j, stdout, stderr, exitCode, calls>>

----------------------------------------------------------------------------
(* Bounds of the model *)

MaxSales == 2      \* longest list SalesSearch returns
MaxLines == 2      \* most line items in a sale
MaxPayments == 2   \* most payments in a sale
MaxRefs == 2       \* longest register / user / customer / product list

(* Program constants *)

SecondsLen == 19      \* dateTimeInLocation.String()[0:19]
DateLen == 10         \* dateTimeStr[0:10]

----------------------------------------------------------------------------
(* Pointers *)

Nil == <<>>
Ptr(v) == <<v>>
Deref(p) == p[1]

----------------------------------------------------------------------------
(* strconv.FormatFloat(x, 'f', -1, 64) on an integer-valued float64 *)

Digit(d) == CASE d = 0 -> "0" [] d = 1 -> "1" [] d = 2 -> "2" [] d = 3 -> "3"
              [] d = 4 -> "4" [] d = 5 -> "5" [] d = 6 -> "6" [] d = 7 -> "7"
              [] d = 8 -> "8" [] d = 9 -> "9"

RECURSIVE Digits(_)
Digits(n) == IF n < 10 THEN Digit(n) ELSE Digits(n \div 10) \o Digit(n % 10)

FormatFloat(x) == IF x < 0 THEN "-" \o Digits(0 - x) ELSE Digits(x)

(* strings.Join *)
RECURSIVE Join(_, _)
Join(parts, sep) ==
    IF parts = <<>> THEN ""
    ELSE IF Len(parts) = 1 THEN parts[1]
    ELSE parts[1] \o sep \o Join(Tail(parts), sep)

(* fmt.Sprintf("%q", s) for a string with nothing to escape *)
Quote(s) == "\"" \o s \o "\""

----------------------------------------------------------------------------
(* time.Parse("2006-01-02", s) *)

DigitVal(c) == CASE c = "0" -> 0 [] c = "1" -> 1 [] c = "2" -> 2 [] c = "3" -> 3
                 [] c = "4" -> 4 [] c = "5" -> 5 [] c = "6" -> 6 [] c = "7" -> 7
                 [] c = "8" -> 8 [] c = "9" -> 9 [] OTHER -> -1

Char(s, k) == SubSeq(s, k, k)

RECURSIVE Num(_, _, _)
\* the number written in s[from..to], or -1 when a character is not a digit
Num(s, from, to) ==
    IF from > to THEN 0
    ELSE LET rest == Num(s, from, to - 1)
             d == DigitVal(Char(s, to))
         IN IF rest < 0 \/ d < 0 THEN -1 ELSE rest * 10 + d

IsLeap(y) == (y % 4 = 0) /\ ((y % 100 # 0) \/ (y % 400 = 0))

DaysIn(m, y) == IF m = 2 THEN (IF IsLeap(y) THEN 29 ELSE 28)
                ELSE IF m \in {4, 6, 9, 11} THEN 30 ELSE 31

\* TRUE when time.Parse returns a nil error
ParseOK(s) ==
    /\ Len(s) = 10
    /\ Char(s, 5) = "-"
    /\ Char(s, 8) = "-"
    /\ LET y == Num(s, 1, 4)
           m == Num(s, 6, 7)
           d == Num(s, 9, 10)
       IN /\ y >= 0
          /\ m >= 1 /\ m <= 12
          /\ d >= 1 /\ d <= DaysIn(m, y)

----------------------------------------------------------------------------
(* The vend types, as far as writeReport reads them.  Every field is a     *)
(* pointer in vend's structs.                                              *)

Register(id, name, deletedAt) ==
    [ID |-> Ptr(id), Name |-> Ptr(name), DeletedAt |-> deletedAt]

User(id, displayName) == [ID |-> Ptr(id), DisplayName |-> Ptr(displayName)]

Customer(id, code, first, last, company) ==
    [ID |-> Ptr(id), Code |-> code, FirstName |-> first, LastName |-> last,
     CompanyName |-> company]

Product(id, name, variant, sku) ==
    [ID |-> Ptr(id), Name |-> Ptr(name), VariantName |-> Ptr(variant),
     SKU |-> Ptr(sku)]

\* the k-th line item of a generated sale; item 1 is quantity 2 at 10 + 1 tax
LineAt(k) ==
    [ProductID     |-> Ptr(IF k % 2 = 1 THEN "p1" ELSE "p2"),
     Quantity      |-> Ptr(k + 1),
     Price         |-> Ptr(10 * k),
     Tax           |-> Ptr(k),
     Discount      |-> Ptr(1 - k),
     DiscountTotal |-> Ptr(2 * (k - 1)),
     LoyaltyValue  |-> Ptr(k - 1)]

PaymentAt(k) ==
    [Name   |-> Ptr(IF k % 2 = 1 THEN "Cash" ELSE "Credit Card"),
     Amount |-> Ptr(11 * k)]

LinesOf(n) == [k \in 1..n |-> LineAt(k)]
PaymentsOf(m) == [k \in 1..m |-> PaymentAt(k)]

\* a closed sale of 100 + 15 tax with n line items and m payments
SaleOf(n, m) ==
    [DeletedAt     |-> Nil,
     Status        |-> Ptr("CLOSED"),
     SaleDate      |-> Ptr("2018-03-05T21:15:08Z"),
     InvoiceNumber |-> Ptr("INV-7"),
     CustomerID    |-> Ptr("c1"),
     Note          |-> Ptr("gift"),
     RegisterID    |-> Ptr("r1"),
     UserID        |-> Ptr("u1"),
     TotalPrice    |-> Ptr(100),
     TotalTax      |-> Ptr(15),
     TotalLoyalty  |-> Ptr(3),
     LineItems     |-> Ptr(LinesOf(n)),
     Payments      |-> Ptr(PaymentsOf(m))]

R1 == Register("r1", "Main Register", Nil)
R2 == Register("r2", "Back Register", Ptr("2018-01-01T00:00:00Z"))
U1 == User("u1", "Alice")
U2 == User("u2", "Bob")
Jane == Customer("c1", Ptr("JANE-01"), Ptr("Jane"), Nil, Nil)
JohnDoe == Customer("c2", Ptr("DOE-02"), Ptr("John"), Ptr("Doe"), Ptr("Acme"))
Smith == Customer("c3", Nil, Nil, Ptr("Smith"), Ptr("Smith & Co"))
WalkIn == Customer("c4", Ptr("WALKIN"), Nil, Nil, Nil)
P1 == Product("p1", "Widget", "Widget / Red", "W-RED")
P2 == Product("p2", "Gadget", "Gadget / Large", "G-L")

TimeZones == {"Pacific/Auckland", "UTC"}

\* vend.ParseVendDT(s, tz).String(): the sale's UTC timestamp in the zone
ParseVendDTString(s, tz) ==
    CASE s = "2018-03-05T21:15:08Z" /\ tz = "Pacific/Auckland"
            -> "2018-03-06 10:15:08 +1300 NZDT"
      [] s = "2018-03-05T21:15:08Z" /\ tz = "UTC"
            -> "2018-03-05 21:15:08 +0000 UTC"
      [] s = "2018-03-07T01:02:03Z" /\ tz = "Pacific/Auckland"
            -> "2018-03-07 14:02:03 +1300 NZDT"
      [] s = "2018-03-07T01:02:03Z" /\ tz = "UTC"
            -> "2018-03-07 01:02:03 +0000 UTC"

----------------------------------------------------------------------------
(* Inputs of a run *)

Ok(v) == [err |-> FALSE, val |-> v]
Failed == [err |-> TRUE, val |-> <<>>]

\* a run in which every flag is valid and every call succeeds
DefaultEnv ==
    [dateFrom  |-> "2018-03-01",
     dateTo    |-> "2018-04-01",
     timeZone  |-> "Pacific/Auckland",
     registers |-> Ok(<<R1, R2>>),
     users     |-> Ok(<<U1>>),
     customers |-> Ok(<<Jane, JohnDoe>>),
     products  |-> Ok(<<P1, P2>>),
     sales     |-> Ok(<<SaleOf(1, 1)>>),
     createErr |-> FALSE]

DateInputs ==
    {"2018-03-01", "2018-04-01", "2016-02-29", "2018-02-29", "2018-13-01",
     "2018-3-1", "01/03/2018", "2018-03-01T00:00:00Z", ""}

\* sales of every shape, excluded or not
Deleted(s) == [s EXCEPT !.DeletedAt = Ptr("2018-03-09T00:00:00Z")]
WithStatus(s, st) == [s EXCEPT !.Status = st]

ShapePool ==
    {SaleOf(n, m) : n \in 0..MaxLines, m \in {0, MaxPayments}}
    \cup {SaleOf(MaxLines, m) : m \in 0..MaxPayments}
    \cup {WithStatus(SaleOf(1, 1), Nil),
          [SaleOf(1, 0) EXCEPT !.InvoiceNumber = Nil, !.Note = Nil,
                               !.SaleDate = Ptr("2018-03-07T01:02:03Z")]}
    \cup {Deleted(SaleOf(MaxLines, MaxPayments)),
          WithStatus(SaleOf(MaxLines, MaxPayments), Ptr("OPEN")),
          Deleted(WithStatus(SaleOf(0, 0), Ptr("OPEN")))}

\* sales with one absent numeric field
SaleNumeric == {"TotalPrice", "TotalTax", "TotalLoyalty"}
LineNumeric == {"Quantity", "Price", "Tax", "Discount", "DiscountTotal",
                "LoyaltyValue"}

NilPool ==
    {[SaleOf(MaxLines, MaxPayments) EXCEPT ![f] = Nil] : f \in SaleNumeric}
    \cup {[SaleOf(MaxLines, MaxPayments) EXCEPT
              !.LineItems = Ptr([LinesOf(MaxLines) EXCEPT ![MaxLines][f] = Nil])] :
            f \in LineNumeric}
    \cup {[SaleOf(MaxLines, MaxPayments) EXCEPT
              !.LineItems = Ptr([LinesOf(MaxLines) EXCEPT ![1].Price = Nil])],
          [SaleOf(MaxLines, MaxPayments) EXCEPT
              !.Payments = Ptr([PaymentsOf(MaxPayments) EXCEPT
                                   ![MaxPayments].Amount = Nil])]}

\* sales that differ in one reference
RefSalePool(field, ids) == {[SaleOf(1, 0) EXCEPT ![field] = id] : id \in ids}

\* e is DefaultEnv with the list `field` of length at most n over pool and the
\* sales of length at most MaxSales over salePool
ListEnv(e, field, pool, n, salePool) ==
    \E k \in 0..n, l \in 0..MaxSales :
        \E vs \in [1..k -> pool], ss \in [1..l -> salePool] :
            e = [DefaultEnv EXCEPT ![field] = Ok(vs), !.sales = Ok(ss)]

\* the flags vary, the API answers as in DefaultEnv
DateEnv(e) ==
    \E f \in DateInputs, t \in DateInputs, z \in TimeZones :
        e = [DefaultEnv EXCEPT !.dateFrom = f, !.dateTo = t, !.timeZone = z]

\* one of the calls fails
FetchEnv(e) ==
    \/ \E c \in {"registers", "users", "customers", "products", "sales"},
          f \in {"2018-03-01", "2018-04-01"}, t \in {"2018-03-01", "2018-04-01"} :
          e = [DefaultEnv EXCEPT ![c] = Failed, !.dateFrom = f, !.dateTo = t]
    \/ e = [DefaultEnv EXCEPT !.createErr = TRUE]

\* the sales vary in shape and in what is absent, the reference data is fixed
SalesEnv(e, salePool) ==
    \E l \in 0..MaxSales : \E ss \in [1..l -> salePool] :
        e = [DefaultEnv EXCEPT !.sales = Ok(ss)]

\* the inputs of the model
Inputs(e) ==
    \/ DateEnv(e)
    \/ FetchEnv(e)
    \/ SalesEnv(e, ShapePool)
    \/ SalesEnv(e, NilPool \cup {SaleOf(1, 1)})
    \/ ListEnv(e, "registers", {R1, R2}, MaxRefs,
               RefSalePool("RegisterID", {Ptr("r1"), Ptr("r2"), Ptr("r9")}))
    \/ ListEnv(e, "users", {U1, U2}, MaxRefs,
               RefSalePool("UserID", {Nil, Ptr("u1"), Ptr("u9")}))
    \/ ListEnv(e, "customers", {Jane, JohnDoe, Smith, WalkIn}, MaxRefs,
               RefSalePool("CustomerID",
                   {Ptr("c1"), Ptr("c2"), Ptr("c3"), Ptr("c4"), Ptr("c9")}))
    \/ ListEnv(e, "products", {P1, P2}, MaxRefs,
               {SaleOf(n, 0) : n \in 0..MaxLines})

----------------------------------------------------------------------------
(* createReport: the header line *)

headerLine ==
    <<"Sale Date", "Sale Time", "Invoice Number", "Line Type", "Customer Code",
      "Company Name", "Customer Name", "Sale Note", "Quantity", "Price", "Tax",
      "Discount", "Loyalty", "Total", "Paid", "Details", "Register", "User",
      "Status", "Product Sku">>

----------------------------------------------------------------------------
(* writeReport: what is computed for one sale *)

\* Excluded without the test of the status
ExcludedDeletedOnly(sale) == sale.DeletedAt # Nil

\* the two `continue` tests at the top of the loop
Excluded(sale) ==
    \/ sale.DeletedAt # Nil
    \/ (sale.Status # Nil /\ Deref(sale.Status) = "OPEN")

dateTimeStr(sale, tz) ==
    SubSeq(ParseVendDTString(Deref(sale.SaleDate), tz), 1, SecondsLen)
dateStrOf(sale, tz) == SubSeq(dateTimeStr(sale, tz), 1, DateLen)
timeStrOf(sale, tz) == SubSeq(dateTimeStr(sale, tz), DateLen + 1, SecondsLen)

invoiceNumberOf(sale) ==
    IF sale.InvoiceNumber # Nil THEN Deref(sale.InvoiceNumber) ELSE ""

\* customerFullName with both parts appended whether present or not
customerFullNameBothParts(customer) ==
    <<IF customer.FirstName # Nil THEN Deref(customer.FirstName) ELSE "",
      IF customer.LastName # Nil THEN Deref(customer.LastName) ELSE "">>

\* customerFullName as appended to for the matched customer
customerFullName(customer) ==
    (IF customer.FirstName # Nil THEN <<Deref(customer.FirstName)>> ELSE <<>>)
    \o (IF customer.LastName # Nil THEN <<Deref(customer.LastName)>> ELSE <<>>)

RECURSIVE CustomerLoop(_, _, _)
\* the loop over customers from index k on; the variables start empty per sale
CustomerLoop(cs, sale, k) ==
    IF k > Len(cs)
    THEN [code |-> "", company |-> "", name |-> ""]
    ELSE IF Deref(cs[k].ID) = Deref(sale.CustomerID)
    THEN [code    |-> IF cs[k].Code # Nil THEN Deref(cs[k].Code) ELSE "",
          company |-> IF cs[k].CompanyName # Nil
                      THEN Deref(cs[k].CompanyName) ELSE "",
          name    |-> Join(customerFullName(cs[k]), " ")]
    ELSE CustomerLoop(cs, sale, k + 1)

saleNoteOf(sale) == IF sale.Note # Nil THEN Quote(Deref(sale.Note)) ELSE ""

RECURSIVE SumField(_, _)
SumField(items, f) ==
    IF items = <<>> THEN 0
    ELSE Deref(items[1][f]) + SumField(Tail(items), f)

RECURSIVE ProductNameLoop(_, _, _)
\* the first loop over products (with break): the fragments of one line item
ProductNameLoop(ps, lineitem, k) ==
    IF k > Len(ps) THEN <<>>
    ELSE IF Deref(ps[k].ID) = Deref(lineitem.ProductID)
    THEN <<Join(<<FormatFloat(Deref(lineitem.Quantity)), Deref(ps[k].Name)>>,
                " X ")>>
    ELSE ProductNameLoop(ps, lineitem, k + 1)

RECURSIVE saleItems(_, _)
saleItems(ps, items) ==
    IF items = <<>> THEN <<>>
    ELSE ProductNameLoop(ps, items[1], 1) \o saleItems(ps, Tail(items))

RECURSIVE RegisterLoop(_, _, _, _)
\* the loop over registers from index k on, registerName being name so far
RegisterLoop(rs, sale, k, name) ==
    IF k > Len(rs) THEN name
    ELSE IF Deref(sale.RegisterID) = Deref(rs[k].ID)
    THEN Deref(rs[k].Name)
         \o (IF rs[k].DeletedAt # Nil THEN " (Deleted)" ELSE "")
    ELSE RegisterLoop(rs, sale, k + 1, "<Deleted Register>")

RECURSIVE UserLoop(_, _, _, _)
UserLoop(us, sale, k, name) ==
    IF k > Len(us) THEN name
    ELSE IF sale.UserID # Nil /\ Deref(sale.UserID) = Deref(us[k].ID)
    THEN Deref(us[k].DisplayName)
    ELSE UserLoop(us, sale, k + 1, "")

saleStatusOf(sale) == IF sale.Status # Nil THEN Deref(sale.Status) ELSE ""

\* a nil pointer is dereferenced before the summary row is written
SummaryPanics(sale) ==
    \/ \E k \in 1..Len(Deref(sale.LineItems)) :
          \/ Deref(sale.LineItems)[k].Quantity = Nil
          \/ Deref(sale.LineItems)[k].DiscountTotal = Nil
    \/ sale.TotalPrice = Nil
    \/ sale.TotalTax = Nil
    \/ sale.TotalLoyalty = Nil

\* record after the 22 appends
SummaryRecord(rs, us, cs, ps, sale, tz) ==
    LET cust == CustomerLoop(cs, sale, 1)
        items == Deref(sale.LineItems)
    IN <<dateStrOf(sale, tz),
         timeStrOf(sale, tz),
         invoiceNumberOf(sale),
         "Sale",
         cust.code,
         cust.company,
         cust.name,
         saleNoteOf(sale),
         FormatFloat(SumField(items, "Quantity")),
         FormatFloat(Deref(sale.TotalPrice)),
         FormatFloat(Deref(sale.TotalTax)),
         FormatFloat(SumField(items, "DiscountTotal")),
         FormatFloat(Deref(sale.TotalLoyalty)),
         FormatFloat(Deref(sale.TotalPrice) + Deref(sale.TotalTax)),
         "",
         Join(saleItems(ps, items), " + "),
         RegisterLoop(rs, sale, 1, ""),
         UserLoop(us, sale, 1, ""),
         saleStatusOf(sale),
         "",
         "",
         "">>

\* a nil pointer is dereferenced while the row of a line item is built
LinePanics(lineitem) ==
    \/ lineitem.Quantity = Nil
    \/ lineitem.Price = Nil
    \/ lineitem.Tax = Nil
    \/ lineitem.Discount = Nil
    \/ lineitem.LoyaltyValue = Nil

RECURSIVE ProductLoop(_, _, _, _)
\* the second loop over products (no break): the last match wins
ProductLoop(ps, lineitem, k, found) ==
    IF k > Len(ps) THEN found
    ELSE IF Deref(ps[k].ID) = Deref(lineitem.ProductID)
    THEN ProductLoop(ps, lineitem, k + 1,
                     [name |-> Deref(ps[k].VariantName), sku |-> Deref(ps[k].SKU)])
    ELSE ProductLoop(ps, lineitem, k + 1, found)

\* productRecord := record, then the assignments to indexes 0..19
ProductRecord(rec, ps, sale, lineitem, tz) ==
    LET prod == ProductLoop(ps, lineitem, 1, [name |-> "", sku |-> ""])
    IN [rec EXCEPT
          ![1] = dateStrOf(sale, tz),
          ![2] = timeStrOf(sale, tz),
          ![3] = "",
          ![4] = "Sale Line",
          ![5] = "",
          ![6] = "",
          ![7] = "",
          ![8] = "",
          ![9] = FormatFloat(Deref(lineitem.Quantity)),
          ![10] = FormatFloat(Deref(lineitem.Price)),
          ![11] = FormatFloat(Deref(lineitem.Tax)),
          ![12] = FormatFloat(Deref(lineitem.Discount)),
          ![13] = FormatFloat(Deref(lineitem.LoyaltyValue)),
          ![14] = FormatFloat((Deref(lineitem.Price) + Deref(lineitem.Tax))
                              * Deref(lineitem.Quantity)),
          ![15] = "",
          ![16] = prod.name,
          ![17] = "",
          ![18] = "",
          ![19] = "",
          ![20] = prod.sku]

\* PaymentRecord without the assignment to index 13 (Total)
PaymentRecordKeepsTotal(rec, sale, payment, tz) ==
    [rec EXCEPT
       ![1] = dateStrOf(sale, tz),
       ![2] = timeStrOf(sale, tz),
       ![3] = "",
       ![4] = "Payment",
       ![5] = "",
       ![6] = "",
       ![7] = "",
       ![8] = "",
       ![9] = "",
       ![10] = "",
       ![11] = "",
       ![12] = "",
       ![13] = "",
       ![15] = FormatFloat(Deref(payment.Amount)),
       ![16] = Deref(payment.Name),
       ![17] = "",
       ![18] = "",
       ![19] = "",
       ![20] = ""]

PaymentPanics(payment) == payment.Amount = Nil

\* paymentRecord := record, then the assignments to indexes 0..19
PaymentRecord(rec, sale, payment, tz) ==
    [rec EXCEPT
       ![1] = dateStrOf(sale, tz),
       ![2] = timeStrOf(sale, tz),
       ![3] = "",
       ![4] = "Payment",
       ![5] = "",
       ![6] = "",
       ![7] = "",
       ![8] = "",
       ![9] = "",
       ![10] = "",
       ![11] = "",
       ![12] = "",
       ![13] = "",
       ![14] = "",
       ![15] = FormatFloat(Deref(payment.Amount)),
       ![16] = Deref(payment.Name),
       ![17] = "",
       ![18] = "",
       ![19] = "",
       ![20] = ""]

----------------------------------------------------------------------------
(* The run *)

Init ==
    /\ Inputs(env)
    /\ pc = "dateFrom"
    /\ registers = <<>>
    /\ users = <<>>
    /\ customers = <<>>
    /\ products = <<>>
    /\ sales = <<>>
    /\ created = FALSE
    /\ file = <<>>
    /\ wbuf = <<>>
    /\ src = <<>>
    /\ record = <<>>
    /\ i = 0
    /\ j = 0
    /\ stdout = <<>>
    /\ stderr = <<>>
    /\ exitCode = -1
    /\ calls = <<>>

writeVars == <<file, wbuf, src, record, i, j>>
fetchVars == <<registers, users, customers, products, sales>>

\* os.Exit(1) after a message on standard output
ExitWith(msg) ==
    /\ stdout' = Append(stdout, msg)
    /\ exitCode' = 1
    /\ pc' = "exited"
    /\ UNCHANGED stderr

\* log.Fatalf: the message on standard error, then os.Exit(1)
Fatalf(msg) ==
    /\ stderr' = Append(stderr, msg)
    /\ exitCode' = 1
    /\ pc' = "exited"
    /\ UNCHANGED stdout

\* a nil pointer dereference: the deferred file.Close runs, nothing is
\* flushed, and the runtime ends the process with status 2
Panic ==
    /\ stderr' = Append(stderr, "panic: runtime error: invalid memory address or nil pointer dereference")
    /\ exitCode' = 2
    /\ pc' = "panicked"
    /\ UNCHANGED stdout

\* getAllSales: time.Parse(layout, dateFrom)
CheckDateFrom ==
    /\ pc = "dateFrom"
    /\ calls' = Append(calls, "dateFrom")
    /\ IF ParseOK(env.dateFrom)
       THEN /\ pc' = "dateTo"
            /\ UNCHANGED <<stdout, stderr, exitCode>>
       ELSE ExitWith("incorrect date from: " \o env.dateFrom)
    /\ UNCHANGED <<env, fetchVars, created, writeVars>>

\* getAllSales: time.Parse(layout, dateTo), then "Retrieving data from Vend..."
CheckDateTo ==
    /\ pc = "dateTo"
    /\ calls' = Append(calls, "dateTo")
    /\ IF ParseOK(env.dateTo)
       THEN /\ pc' = "Registers"
            /\ stdout' = Append(stdout, "Retrieving data from Vend...")
            /\ UNCHANGED <<stderr, exitCode>>
       ELSE ExitWith("incorrect date from: " \o env.dateTo)
    /\ UNCHANGED <<env, fetchVars, created, writeVars>>

GetRegisters ==
    /\ pc = "Registers"
    /\ calls' = Append(calls, "Registers")
    /\ IF env.registers.err
       THEN /\ Fatalf("Failed to get registers")
            /\ UNCHANGED registers
       ELSE /\ registers' = env.registers.val
            /\ pc' = "Users"
            /\ UNCHANGED <<stdout, stderr, exitCode>>
    /\ UNCHANGED <<env, users, customers, products, sales, created, writeVars>>

GetUsers ==
    /\ pc = "Users"
    /\ calls' = Append(calls, "Users")
    /\ IF env.users.err
       THEN /\ Fatalf("Failed to get users")
            /\ UNCHANGED users
       ELSE /\ users' = env.users.val
            /\ pc' = "Customers"
            /\ UNCHANGED <<stdout, stderr, exitCode>>
    /\ UNCHANGED <<env, registers, customers, products, sales, created, writeVars>>

\* GetCustomers without the log.Fatalf: the run goes on with no customers
GetCustomersContinues ==
    /\ pc = "Customers"
    /\ calls' = Append(calls, "Customers")
    /\ customers' = env.customers.val
    /\ pc' = "Products"
    /\ UNCHANGED <<stdout, stderr, exitCode>>
    /\ UNCHANGED <<env, registers, users, products, sales, created, writeVars>>

GetCustomers ==
    /\ pc = "Customers"
    /\ calls' = Append(calls, "Customers")
    /\ IF env.customers.err
       THEN /\ Fatalf("Failed to get customers")
            /\ UNCHANGED customers
       ELSE /\ customers' = env.customers.val
            /\ pc' = "Products"
            /\ UNCHANGED <<stdout, stderr, exitCode>>
    /\ UNCHANGED <<env, registers, users, products, sales, created, writeVars>>

GetProducts ==
    /\ pc = "Products"
    /\ calls' = Append(calls, "Products")
    /\ IF env.products.err
       THEN /\ Fatalf("Failed to get products")
            /\ UNCHANGED products
       ELSE /\ products' = env.products.val
            /\ pc' = "SalesSearch"
            /\ UNCHANGED <<stdout, stderr, exitCode>>
    /\ UNCHANGED <<env, registers, users, customers, sales, created, writeVars>>

\* GetSales ending the run with log.Fatalf like the other fetches
GetSalesFatal ==
    /\ pc = "SalesSearch"
    /\ calls' = Append(calls, "SalesSearch")
    /\ IF env.sales.err
       THEN /\ Fatalf("Failed to get sales")
            /\ UNCHANGED sales
       ELSE /\ sales' = env.sales.val
            /\ pc' = "createReport"
            /\ UNCHANGED <<stdout, stderr, exitCode>>
    /\ UNCHANGED <<env, registers, users, customers, products, created, writeVars>>

\* vc.SalesSearch: on an error, print it and return; main then ends normally
GetSales ==
    /\ pc = "SalesSearch"
    /\ calls' = Append(calls, "SalesSearch")
    /\ IF env.sales.err
       THEN /\ stdout' = Append(stdout, "Error: sales search failed")
            /\ pc' = "returned"
            /\ exitCode' = 0
            /\ UNCHANGED <<sales, stderr>>
       ELSE /\ sales' = env.sales.val
            /\ pc' = "createReport"
            /\ UNCHANGED <<stdout, stderr, exitCode>>
    /\ UNCHANGED <<env, registers, users, customers, products, created, writeVars>>

\* createReport, then "Writing Sales to CSV file..." and the call of writeReport
CreateReport ==
    /\ pc = "createReport"
    /\ calls' = Append(calls, "createReport")
    /\ IF env.createErr
       THEN /\ Fatalf("Error creating CSV file")
            /\ UNCHANGED <<created, file, i>>
       ELSE /\ created' = TRUE
            /\ file' = <<headerLine>>
            /\ stdout' = Append(stdout, "Writing Sales to CSV file...")
            /\ pc' = "sale"
            /\ i' = 1
            /\ UNCHANGED <<stderr, exitCode>>
    /\ UNCHANGED <<env, fetchVars, wbuf, src, record, j>>

\* where writeReport goes after the summary row (k = 0) or the k-th line item
\* row of sale n
AfterLine(n, k) ==
    IF k < Len(Deref(sales[n].LineItems)) THEN <<"lines", n, k + 1>>
    ELSE IF Len(Deref(sales[n].Payments)) > 0 THEN <<"payments", n, 1>>
    ELSE <<"sale", n + 1, 0>>

\* where writeReport goes after the k-th payment row of sale n
AfterPayment(n, k) ==
    IF k < Len(Deref(sales[n].Payments)) THEN <<"payments", n, k + 1>>
    ELSE <<"sale", n + 1, 0>>

\* writeReport: `continue` on a deleted or OPEN sale
SkipSale ==
    /\ pc = "sale"
    /\ i <= Len(sales)
    /\ Excluded(sales[i])
    /\ i' = i + 1
    /\ calls' = IF i = 1 THEN Append(calls, "writeReport") ELSE calls
    /\ UNCHANGED <<env, pc, fetchVars, created, file, wbuf, src, record, j,
                   stdout, stderr, exitCode>>

\* writeReport: the summary row of an included sale
WriteSale ==
    /\ pc = "sale"
    /\ i <= Len(sales)
    /\ ~Excluded(sales[i])
    /\ calls' = IF i = 1 THEN Append(calls, "writeReport") ELSE calls
    /\ IF SummaryPanics(sales[i])
       THEN /\ Panic
            /\ UNCHANGED <<wbuf, src, record, i, j>>
       ELSE /\ record' = SummaryRecord(registers, users, customers, products,
                                       sales[i], env.timeZone)
            /\ wbuf' = Append(wbuf, record')
            /\ src' = Append(src, [sale |-> i, kind |-> "Sale", item |-> 0])
            /\ pc' = AfterLine(i, 0)[1]
            /\ i' = AfterLine(i, 0)[2]
            /\ j' = AfterLine(i, 0)[3]
            /\ UNCHANGED <<stdout, stderr, exitCode>>
    /\ UNCHANGED <<env, fetchVars, created, file>>

\* writeReport: the row of line item j of sale i
WriteSaleLine ==
    /\ pc = "lines"
    /\ LET lineitem == Deref(sales[i].LineItems)[j]
       IN IF LinePanics(lineitem)
          THEN /\ Panic
               /\ UNCHANGED <<wbuf, src, record, i, j>>
          ELSE /\ record' = ProductRecord(record, products, sales[i], lineitem,
                                          env.timeZone)
               /\ wbuf' = Append(wbuf, record')
               /\ src' = Append(src, [sale |-> i, kind |-> "Sale Line", item |-> j])
               /\ pc' = AfterLine(i, j)[1]
               /\ i' = AfterLine(i, j)[2]
               /\ j' = AfterLine(i, j)[3]
               /\ UNCHANGED <<stdout, stderr, exitCode>>
    /\ UNCHANGED <<env, fetchVars, created, file, calls>>

\* writeReport: the row of payment j of sale i
WritePayment ==
    /\ pc = "payments"
    /\ LET payment == Deref(sales[i].Payments)[j]
       IN IF PaymentPanics(payment)
          THEN /\ Panic
               /\ UNCHANGED <<wbuf, src, record, i, j>>
          ELSE /\ record' = PaymentRecord(record, sales[i], payment, env.timeZone)
               /\ wbuf' = Append(wbuf, record')
               /\ src' = Append(src, [sale |-> i, kind |-> "Payment", item |-> j])
               /\ pc' = AfterPayment(i, j)[1]
               /\ i' = AfterPayment(i, j)[2]
               /\ j' = AfterPayment(i, j)[3]
               /\ UNCHANGED <<stdout, stderr, exitCode>>
    /\ UNCHANGED <<env, fetchVars, created, file, calls>>

\* writeReport: writer.Flush() after the loop, and the return
Flush ==
    /\ pc = "sale"
    /\ i > Len(sales)
    /\ file' = file \o wbuf
    /\ wbuf' = <<>>
    /\ pc' = "exported"
    /\ calls' = IF sales = <<>> THEN Append(calls, "writeReport") ELSE calls
    /\ UNCHANGED <<env, fetchVars, created, src, record, i, j, stdout, stderr,
                   exitCode>>

\* getAllSales: fmt.Printf("Exported %v sales", len(sales)), then the return
PrintExported ==
    /\ pc = "exported"
    /\ stdout' = Append(stdout, "Exported " \o FormatFloat(Len(sales)) \o " sales")
    /\ pc' = "done"
    /\ exitCode' = 0
    /\ UNCHANGED <<env, fetchVars, created, writeVars, stderr, calls>>

Next ==
    \/ CheckDateFrom
    \/ CheckDateTo
    \/ GetRegisters
    \/ GetUsers
    \/ GetCustomers
    \/ GetProducts
    \/ GetSales
    \/ CreateReport
    \/ SkipSale
    \/ WriteSale
    \/ WriteSaleLine
    \/ WritePayment
    \/ Flush
    \/ PrintExported

Spec == Init /\ [][Next]_vars

----------------------------------------------------------------------------
(* Vocabulary of the properties *)

\* the data rows handed to writeReport's CSV writer so far, flushed or not;
\* src[r] tells where row r came from
Emitted == (IF file = <<>> THEN <<>> ELSE Tail(file)) \o wbuf

\* the data rows that are in the report file
FileRows == IF file = <<>> THEN <<>> ELSE Tail(file)
FileSrc == SubSeq(src, 1, Len(FileRows))

ProcessEnded == exitCode # -1

DeletedOrOpen(sale) == sale.DeletedAt # Nil \/ sale.Status = Ptr("OPEN")

\* the row of a sale computed from that sale and the reference data alone
RowOf(sale, kind, item) ==
    LET summary == SummaryRecord(registers, users, customers, products, sale,
                                 env.timeZone)
    IN CASE kind = "Sale" -> summary
         [] kind = "Sale Line" ->
                ProductRecord(summary, products, sale,
                              Deref(sale.LineItems)[item], env.timeZone)
         [] kind = "Payment" ->
                PaymentRecord(summary, sale, Deref(sale.Payments)[item],
                              env.timeZone)

\* the index in Emitted of the summary row of the sale that row r belongs to
SummaryRowOf(r) ==
    CHOOSE q \in 1..Len(src) : src[q].sale = src[r].sale /\ src[q].kind = "Sale"

RECURSIVE ExpectedSrc(_, _)
\* the rows the sales from index n on are to give: per included sale one
\* "Sale", its line items in order, its payments in order
ExpectedSrc(ss, n) ==
    IF n > Len(ss) THEN <<>>
    ELSE (IF DeletedOrOpen(ss[n]) THEN <<>>
          ELSE <<[sale |-> n, kind |-> "Sale", item |-> 0]>>
               \o [k \in 1..Len(Deref(ss[n].LineItems)) |->
                      [sale |-> n, kind |-> "Sale Line", item |-> k]]
               \o [k \in 1..Len(Deref(ss[n].Payments)) |->
                      [sale |-> n, kind |-> "Payment", item |-> k]])
         \o ExpectedSrc(ss, n + 1)

----------------------------------------------------------------------------
(* C1: no data row comes from a sale that is deleted or has status OPEN,   *)
(* whatever its position, line items or payments; and every row emitted is *)
(* the row its own sale gives with the reference data alone, so the rows   *)
(* of the other sales do not depend on the excluded sales around them.     *)
C1_ExcludedSalesEmitNothing ==
    /\ Len(src) = Len(Emitted)
    /\ \A r \in 1..Len(src) :
          /\ ~DeletedOrOpen(sales[src[r].sale])
          /\ Emitted[r] = RowOf(sales[src[r].sale], src[r].kind, src[r].item)

\* a finished run over <<excluded sale with line items and payments, included
\* sale>>: the file holds rows, all of the second sale
C1_Witness ==
    /\ pc = "done"
    /\ Len(sales) = 2
    /\ DeletedOrOpen(sales[1])
    /\ Len(Deref(sales[1].LineItems)) > 0
    /\ Len(Deref(sales[1].Payments)) > 0
    /\ ~DeletedOrOpen(sales[2])
    /\ Len(FileRows) > 1
    /\ \A r \in 1..Len(src) : src[r].sale = 2

(* C2: when the process has ended with a report file, the file holds for   *)
(* every included sale exactly 1 + len(lineItems) + len(payments) rows,    *)
(* contiguous: "Sale", the "Sale Line" rows in line-item order, the        *)
(* "Payment" rows in payment order; the groups in the order of the sales.  *)
C2_RowsPerSaleInOrder ==
    (ProcessEnded /\ created) =>
        /\ FileSrc = ExpectedSrc(sales, 1)
        /\ \A r \in 1..Len(FileRows) : FileRows[r][4] = FileSrc[r].kind

\* the same, for the runs that reach the end of getAllSales
RowsPerSaleInOrderWhenDone ==
    pc = "done" =>
        /\ FileSrc = ExpectedSrc(sales, 1)
        /\ \A r \in 1..Len(FileRows) : FileRows[r][4] = FileSrc[r].kind

(* C3: a malformed date-from or date-to, or a failed fetch of registers,   *)
(* users, customers or products, ends the process at once with status 1:   *)
(* the steps are performed in their fixed order, the failing step is the   *)
(* last one performed and no report file exists; and with two well-formed  *)
(* dates the run is never ended by a date check, whatever their order.     *)
Steps ==
    <<"dateFrom", "dateTo", "Registers", "Users", "Customers", "Products",
      "SalesSearch", "createReport", "writeReport">>

FatalAt(k) ==
    CASE k = 1 -> ~ParseOK(env.dateFrom)
      [] k = 2 -> ~ParseOK(env.dateTo)
      [] k = 3 -> env.registers.err
      [] k = 4 -> env.users.err
      [] k = 5 -> env.customers.err
      [] k = 6 -> env.products.err

DateKey(s) == Num(s, 1, 4) * 10000 + Num(s, 6, 7) * 100 + Num(s, 9, 10)

C3_FatalStepsStopTheRun ==
    /\ calls = SubSeq(Steps, 1, Len(calls))
    /\ \A k \in 1..6 :
          (FatalAt(k) /\ \A l \in 1..(k - 1) : ~FatalAt(l)) =>
              /\ Len(calls) <= k
              /\ ~created
              /\ file = <<>>
              /\ (Len(calls) = k => pc = "exited" /\ exitCode = 1)
    /\ (ParseOK(env.dateFrom) /\ ParseOK(env.dateTo)) =>
          ~(pc = "exited" /\ Len(calls) <= 2)

\* date-from later than date-to passed both checks, then Customers failed
C3_Witness ==
    /\ ParseOK(env.dateFrom) /\ ParseOK(env.dateTo)
    /\ DateKey(env.dateFrom) > DateKey(env.dateTo)
    /\ env.customers.err
    /\ calls = SubSeq(Steps, 1, 5)
    /\ pc = "exited"
    /\ exitCode = 1
    /\ ~created

IsExportedMessage(m) == Len(m) >= 8 /\ SubSeq(m, 1, 8) = "Exported"

(* C4: when SalesSearch fails after the four reference fetches succeeded,  *)
(* the error is printed and getAllSales returns: SalesSearch is the last   *)
(* step, no report file is created, no row is written, no "Exported"       *)
(* message is printed, and the process ends with status 0, not 1.          *)
C4_SalesSearchFailureReturns ==
    (env.sales.err /\ \A k \in 1..6 : ~FatalAt(k)) =>
        /\ Len(calls) <= 7
        /\ ~created
        /\ file = <<>>
        /\ wbuf = <<>>
        /\ \A k \in 1..Len(stdout) : ~IsExportedMessage(stdout[k])
        /\ exitCode \in {-1, 0}
        /\ stderr = <<>>
        /\ Len(calls) = 7 =>
              /\ pc = "returned"
              /\ exitCode = 0
              /\ stdout[Len(stdout)] = "Error: sales search failed"

C4_Witness ==
    /\ env.sales.err
    /\ calls = SubSeq(Steps, 1, 7)
    /\ pc = "returned"
    /\ registers # <<>>
    /\ exitCode = 0

\* the register whose ID is the sale's RegisterID, first in the list
MatchingRegisters(sale) ==
    {k \in 1..Len(registers) : registers[k].ID = sale.RegisterID}

First(S) == CHOOSE k \in S : \A l \in S : k <= l

(* C5: the Register column of every summary row is the matched register's  *)
(* name, followed by " (Deleted)" when that register has DeletedAt set,    *)
(* and "<Deleted Register>" whenever no register of the list (the empty    *)
(* list included) has the sale's RegisterID.                               *)
C5_RegisterColumn ==
    \A r \in 1..Len(src) :
        src[r].kind = "Sale" =>
            LET sale == sales[src[r].sale]
                M == MatchingRegisters(sale)
            IN Emitted[r][17] =
                  IF M = {} THEN "<Deleted Register>"
                  ELSE IF registers[First(M)].DeletedAt = Nil
                  THEN Deref(registers[First(M)].Name)
                  ELSE Deref(registers[First(M)].Name) \o " (Deleted)"

(* C6: writeReport never fails on an absent numeric field: a run whose     *)
(* sales lack a total, a line item quantity, price, tax, discount or       *)
(* loyalty value, or a payment amount, does not end in a panic.            *)
C6_NoFailureOnAbsentField == pc # "panicked"

(* C7: the header row and every data row of the report have the same       *)
(* number of columns, 22.                                                  *)
C7_SameColumnCount ==
    /\ \A r \in 1..Len(file) : Len(file[r]) = 22
    /\ \A r \in 1..Len(wbuf) : Len(wbuf[r]) = 22

MatchingCustomers(sale) ==
    {k \in 1..Len(customers) : customers[k].ID = sale.CustomerID}

OrBlank(p) == IF p = Nil THEN "" ELSE Deref(p)

(* C8: in every summary row the Customer Name column is the present parts  *)
(* of the matched customer's first and last name joined by one space (one  *)
(* part alone when the other is absent, blank when both are), and customer *)
(* code, company name and customer name are all blank when no customer has *)
(* the sale's CustomerID, whatever an earlier sale matched.                *)
C8_CustomerColumns ==
    \A r \in 1..Len(src) :
        src[r].kind = "Sale" =>
            LET sale == sales[src[r].sale]
                M == MatchingCustomers(sale)
                c == customers[First(M)]
            IN IF M = {}
               THEN Emitted[r][5] = "" /\ Emitted[r][6] = "" /\ Emitted[r][7] = ""
               ELSE /\ Emitted[r][5] = OrBlank(c.Code)
                    /\ Emitted[r][6] = OrBlank(c.CompanyName)
                    /\ Emitted[r][7] =
                          IF c.FirstName # Nil /\ c.LastName # Nil
                          THEN Deref(c.FirstName) \o " " \o Deref(c.LastName)
                          ELSE IF c.FirstName # Nil THEN Deref(c.FirstName)
                          ELSE IF c.LastName # Nil THEN Deref(c.LastName)
                          ELSE ""

\* the first sale matched John Doe of Acme, the second matches Jane, who has a
\* first name only and no company
C8_Witness ==
    /\ pc = "done"
    /\ Len(sales) = 2
    /\ Len(src) = 4
    /\ Emitted[1][7] = "John Doe" /\ Emitted[1][6] = "Acme"
    /\ src[3].kind = "Sale" /\ src[3].sale = 2
    /\ Emitted[3][7] = "Jane" /\ Emitted[3][6] = ""

(* C9: on a run that completes, the process exits zero and the final       *)
(* message reports the number of sales whose rows were written to the      *)
(* report file.                                                            *)
C9_ExportedCount ==
    pc = "done" =>
        /\ exitCode = 0
        /\ stdout[Len(stdout)] =
              "Exported "
              \o FormatFloat(Cardinality({FileSrc[r].sale : r \in 1..Len(FileSrc)}))
              \o " sales"

Blank(row, cols) == \A c \in cols : row[c] = ""

(* C10: no value leaks between the rows built in the shared record: a      *)
(* "Payment" row has the sale's date and time, its line type, the amount   *)
(* in Paid, the payment name in Details, and every other column blank; a   *)
(* "Sale Line" row has invoice number, customer code, company name,        *)
(* customer name, note, paid, register, user and status blank; and a       *)
(* summary row in the output still has the values it was written with.     *)
C10_NoLeakBetweenRows ==
    \A r \in 1..Len(src) :
        LET row == Emitted[r]
            sale == sales[src[r].sale]
            first == Emitted[SummaryRowOf(r)]
        IN /\ Len(row) = 22
           /\ row[1] = first[1]
           /\ row[2] = first[2]
           /\ row[4] = src[r].kind
           /\ src[r].kind = "Payment" =>
                 /\ row[15] = FormatFloat(Deref(Deref(sale.Payments)[src[r].item].Amount))
                 /\ row[16] = Deref(Deref(sale.Payments)[src[r].item].Name)
                 /\ Blank(row, {3} \cup (5..14) \cup (17..22))
           /\ src[r].kind = "Sale Line" =>
                 Blank(row, {3, 5, 6, 7, 8, 15, 17, 18, 19})
           /\ src[r].kind = "Sale" =>
                 row = SummaryRecord(registers, users, customers, products, sale,
                                     env.timeZone)

\* a payment row written right after a line item row that left a quantity, a
\* total and a SKU in the shared record
C10_Witness ==
    \E r \in 1..(Len(src) - 1) :
        /\ src[r].kind = "Sale Line"
        /\ src[r + 1].kind = "Payment"
        /\ Emitted[r][9] # "" /\ Emitted[r][14] # "" /\ Emitted[r][20] # ""
        /\ Emitted[r + 1][9] = "" /\ Emitted[r + 1][14] = "" /\ Emitted[r + 1][20] = ""
        /\ Emitted[SummaryRowOf(r)][3] # ""

====
